---- MODULE Spec2Model ----
(***************************************************************************)
(* Tetris-2048 rule engine: GameGrid (src/game_grid.py), Tetromino         *)
(* (src/tetromino.py), Tile (src/tile.py) and the part of the driver loop  *)
(* (src/Tetris_2048_.py, start) that calls into them.                      *)
(*                                                                         *)
(* A tile is modelled by its number; None (an empty cell) is 0.  A matrix  *)
(* is a function from row index to a function from column index to a tile, *)
(* indexed from 0 as in the source.  Grid row 0 is the bottom of the board; *)
(* row 0 of a tetromino matrix is its top (get_cell_position).              *)
(* Where the identity of the Tile objects matters a tile also carries an   *)
(* identity, Tile(id, number) = id * MaxNumber + number; a tile without    *)
(* one (id 0) is its number.                                                *)
(***************************************************************************)
EXTENDS Integers, Sequences, FiniteSets, TLC

\* ---------------------------------------------------------------- bounds
\* Board of the driver session (the program uses gh, gw = 20, 16).
GridHeight == 3
GridWidth == 4
\* Number of update_grid calls made on a grid after its game_over flag is set.
MaxLateCalls == 1
\* Boards of the single-pass specifications (merge pass, row clearing).
PassHeight == 4
PassWidth == 2
\* Board of the sessions that start on a grid with locked tiles, and the
\* height of the highest column of such a grid.
StackHeight == 4
StackWidth == 4
MaxStack == 2
\* Tile numbers stay below MaxNumber.
MaxNumber == 1024
\* Pieces created after the first one in the sessions of two pieces.
MorePieces == 1
\* Pieces created after the first two in the sessions with the hold key.
HoldDraws == 1

None == 0

VARIABLES
    tile_matrix,    \* GameGrid.tile_matrix
    grid_height,    \* GameGrid.grid_height (= Tetromino.grid_height)
    grid_width,     \* GameGrid.grid_width  (= Tetromino.grid_width)
    score,          \* GameGrid.score
    game_over,      \* GameGrid.game_over
    cleared_lines,  \* GameGrid.cleared_lines, attribute set by the driver
    level,          \* driver: level
    cur,            \* driver: cur, the active Tetromino (NoPiece: none)
    running,        \* driver: running
    pc,             \* driver: position in one loop iteration, "key" or "tick"
    pieces,         \* number of further Tetromino objects the session creates
    nxt,            \* driver: nxt, the next Tetromino (NoPiece: none is created)
    hold,           \* driver: hold, the held Tetromino (NoPiece: None)
    used,           \* driver: used, a hold took effect since the last lock
    holds,          \* history: holds that took effect since the last lock
    late_calls,     \* number of update_grid calls made after game over
    last,           \* the engine call made by the last step and what it returned
    pre,            \* history: grid and piece as they were before the last step
    overflow_calls, \* history: update_grid calls with a footprint cell off the board
    rows_removed    \* history: rows deleted by shift_down_above_row so far

vars == <<tile_matrix, grid_height, grid_width, score, game_over, cleared_lines,
          level, cur, running, pc, pieces, nxt, hold, used, holds, late_calls,
          last, pre, overflow_calls, rows_removed>>

\* The driver's variables of the hold key.
hold_vars == <<nxt, hold, used, holds>>

\* ---------------------------------------------------------------- helpers
\* np.full((h, w), None)
EmptyMatrix(h, w) == [r \in 0..(h - 1) |-> [c \in 0..(w - 1) |-> None]]

NumRows(m) == Cardinality(DOMAIN m)
NumCols(m) == Cardinality(DOMAIN m[0])

\* ------------------------------------------------------------------- Tile
\* Tile.__init__: random.choice([2, 4])
TileNumbers == {2, 4}

\* A Tile object: its identity and its number.
Tile(id, number) == id * MaxNumber + number

\* tile.number
Number(tile) == tile % MaxNumber

\* The identity of a Tile object: odd for an object made by Tile(), even for
\* one made by copy.deepcopy, 0 for a tile that carries none.
Ident(tile) == tile \div MaxNumber

\* copy.deepcopy(tile): a new object with the same number.
deepcopy_same(tile) == tile
deepcopy(tile) == IF Ident(tile) = 0 THEN tile ELSE Tile(Ident(tile) + 1, Number(tile))

\* Tile.merge_with: the number of the tile doubles when the two numbers match.
merge_with_adds_two(tile, other_tile) ==
    IF Number(tile) = Number(other_tile) THEN tile + 2 ELSE tile
merge_with(tile, other_tile) ==
    IF Number(tile) = Number(other_tile) THEN tile + Number(tile) ELSE tile

\* Sum of the tile numbers of one row (None counts 0).
RECURSIVE RowSumFrom(_, _, _)
RowSumFrom(rowv, c, w) ==
    IF c >= w THEN 0 ELSE Number(rowv[c]) + RowSumFrom(rowv, c + 1, w)
RowSum(rowv) == RowSumFrom(rowv, 0, Cardinality(DOMAIN rowv))

\* --------------------------------------------------------------- GameGrid
is_inside(h, w, row, col) == 0 <= row /\ row < h /\ 0 <= col /\ col < w

is_occupied(g, h, w, row, col) == is_inside(h, w, row, col) /\ g[row][col] # None

\* shift_down_above_row: rows above row_index move down by one, top row emptied.
shift_down_above_row(g, h, w, row_index) ==
    [r \in 0..(h - 1) |->
        IF r = h - 1 THEN [c \in 0..(w - 1) |-> None]
        ELSE IF r >= row_index THEN g[r + 1]
        ELSE g[r]]

\* "None not in self.tile_matrix[row]"
FullRow(g, w, row) == \A c \in 0..(w - 1) : g[row][c] # None

\* chain_bottom_up_merge, line 159: the test that guards a merge.
MergeTestAnyPair(current, above) == current # None /\ above # None
MergeTest(current, above) ==
    current # None /\ above # None /\ Number(current) = Number(above)

\* chain_bottom_up_merge, line 154: the row the scan of a column starts at.
MergeScanStartAbove(col) == 1
MergeScanStart(col) == 0

\* chain_bottom_up_merge, lines 164-165: the row scanned after a merge at row.
RowAfterMerge(row) == row + 2

\* chain_bottom_up_merge, line 162: what a merge adds to the score.
MergeScoreOld(current, merged_number) == current
MergeScoreNegated(current, merged_number) == 0 - merged_number
MergeScore(current, merged_number) == merged_number

\* chain_bottom_up_merge, the while loop over the rows of one column.
\* st = [g, score, merged, log]; log lists the merge_with calls in order as
\* [row, col, current, above, result]: the two numbers passed and the number
\* the lower tile holds afterwards.
RECURSIVE MergeColumnFromKeepsAbove(_, _, _, _)
MergeColumnFromKeepsAbove(st, h, col, row) ==
    IF ~(row < h - 1) THEN st
    ELSE LET current == st.g[row][col]
             above == st.g[row + 1][col]
         IN  IF MergeTest(current, above)
             THEN LET merged_tile == merge_with(current, above)
                      g1 == [st.g EXCEPT ![row][col] = merged_tile]
                  IN  MergeColumnFromKeepsAbove(
                          [g |-> g1,
                           score |-> st.score + MergeScore(Number(current),
                                                           Number(merged_tile)),
                           merged |-> TRUE,
                           log |-> Append(st.log,
                                     [row |-> row, col |-> col,
                                      current |-> Number(current),
                                      above |-> Number(above),
                                      result |-> Number(merged_tile)])],
                          h, col, RowAfterMerge(row))
             ELSE MergeColumnFromKeepsAbove(st, h, col, row + 1)
RECURSIVE MergeColumnFrom(_, _, _, _)
MergeColumnFrom(st, h, col, row) ==
    IF ~(row < h - 1) THEN st
    ELSE LET current == st.g[row][col]
             above == st.g[row + 1][col]
         IN  IF MergeTest(current, above)
             THEN LET merged_tile == merge_with(current, above)
                      g1 == [st.g EXCEPT ![row][col] = merged_tile,
                                         ![row + 1][col] = None]
                  IN  MergeColumnFrom(
                          [g |-> g1,
                           score |-> st.score + MergeScore(Number(current),
                                                           Number(merged_tile)),
                           merged |-> TRUE,
                           log |-> Append(st.log,
                                     [row |-> row, col |-> col,
                                      current |-> Number(current),
                                      above |-> Number(above),
                                      result |-> Number(merged_tile)])],
                          h, col, RowAfterMerge(row))
             ELSE MergeColumnFrom(st, h, col, row + 1)

\* chain_bottom_up_merge, the for loop over the columns.
RECURSIVE MergeColumns(_, _, _)
MergeColumns(st, h, columns) ==
    IF columns = {} THEN st
    ELSE LET col == CHOOSE c \in columns : \A d \in columns : c <= d
         IN  MergeColumns(MergeColumnFrom(st, h, col, MergeScanStart(col)), h,
                          columns \ {col})

\* chain_bottom_up_merge(columns) on grid g with score sc:
\* [g, score, merged, log].
chain_bottom_up_merge_every_column(g, h, sc, columns) ==
    MergeColumns([g |-> g, score |-> sc, merged |-> FALSE, log |-> <<>>],
                 h, 0..(NumCols(g) - 1))
chain_bottom_up_merge(g, h, sc, columns) ==
    MergeColumns([g |-> g, score |-> sc, merged |-> FALSE, log |-> <<>>],
                 h, columns)

\* clear_full_rows_return_columns, lines 186-189: the row tested after the
\* full row at index row was removed (the same index: no row += 1).
RowAfterClearAdvance(row) == row + 1
RowAfterClear(row) == row

\* clear_full_rows_return_columns, lines 183-185: what a full row adds to
\* cleared_score.
ClearedRowScore(rowv) == RowSum(rowv)

\* clear_full_rows_return_columns, the while loop from row on.
\* st = [g, cleared_score, cleared_cols, log]; log lists, in order, each
\* removed row as [row, tiles]: its index and its contents when removed.
RECURSIVE ClearRowsFrom(_, _, _, _)
ClearRowsFrom(st, h, w, row) ==
    IF ~(row < h) THEN st
    ELSE IF FullRow(st.g, w, row)
         THEN ClearRowsFrom(
                  [g |-> shift_down_above_row(st.g, h, w, row),
                   cleared_score |-> st.cleared_score + ClearedRowScore(st.g[row]),
                   cleared_cols |-> st.cleared_cols \cup (0..(w - 1)),
                   log |-> Append(st.log, [row |-> row, tiles |-> st.g[row]])],
                  h, w, RowAfterClear(row))
         ELSE ClearRowsFrom(st, h, w, row + 1)

\* clear_full_rows_return_columns on grid g with score sc:
\* [g, score, cleared_cols, log].
clear_full_rows_return_columns(g, h, w, sc) ==
    LET st == ClearRowsFrom([g |-> g, cleared_score |-> 0, cleared_cols |-> {},
                             log |-> <<>>], h, w, 0)
    IN  [g |-> st.g, score |-> sc + st.cleared_score,
         cleared_cols |-> st.cleared_cols, log |-> st.log]

\* fall_disconnected_tiles, lines 204-207: the occupied cells of the bottom
\* row, in column order, start the queue.
RECURSIVE BottomRowCells(_, _, _)
BottomRowCells(g, w, col) ==
    IF col >= w THEN <<>>
    ELSE (IF g[0][col] # None THEN <<(<<0, col>>)>> ELSE <<>>)
         \o BottomRowCells(g, w, col + 1)

\* fall_disconnected_tiles, line 212: the neighbours the search looks at.
DirectionsVertical == << <<-1, 0>>, <<1, 0>> >>
Directions == << <<-1, 0>>, <<1, 0>>, <<0, -1>>, <<0, 1>> >>

\* fall_disconnected_tiles, lines 212-217: the neighbours of (r, c) in turn.
\* qv = [queue, visited].
RECURSIVE VisitNeighbours(_, _, _, _, _, _, _)
VisitNeighbours(qv, g, h, w, r, c, i) ==
    IF i > Len(Directions) THEN qv
    ELSE LET nr == r + Directions[i][1]
             nc == c + Directions[i][2]
         IN  IF is_inside(h, w, nr, nc) /\ <<nr, nc>> \notin qv.visited
                /\ g[nr][nc] # None
             THEN VisitNeighbours(
                      [queue |-> Append(qv.queue, <<nr, nc>>),
                       visited |-> qv.visited \cup {<<nr, nc>>}],
                      g, h, w, r, c, i + 1)
             ELSE VisitNeighbours(qv, g, h, w, r, c, i + 1)

\* fall_disconnected_tiles, lines 210-217: the breadth-first search.
RECURSIVE FloodFill(_, _, _, _)
FloodFill(qv, g, h, w) ==
    IF qv.queue = <<>> THEN qv.visited
    ELSE LET rc == Head(qv.queue)
         IN  FloodFill(
                 VisitNeighbours([queue |-> Tail(qv.queue), visited |-> qv.visited],
                                 g, h, w, rc[1], rc[2], 1),
                 g, h, w)

\* The cells marked visited: the tiles supported from the bottom row.
Supported(g, h, w) ==
    LET start == BottomRowCells(g, w, 0)
    IN  FloodFill([queue |-> start,
                   visited |-> {start[i] : i \in 1..Len(start)}], g, h, w)

\* fall_disconnected_tiles, lines 223-226: where the tile at (row, col) stops.
FallDestFloor(g, col, dest) == 0
RECURSIVE FallDest(_, _, _)
FallDest(g, col, dest) ==
    IF dest > 0 /\ g[dest - 1][col] = None THEN FallDest(g, col, dest - 1)
    ELSE dest

\* fall_disconnected_tiles, line 221: the first row the falling loop looks at.
FirstFallRow(h) == h - 2

\* fall_disconnected_tiles, lines 220-230: the loops over the columns and,
\* from the top down, over the rows of each.
RECURSIVE FallFrom(_, _, _, _, _, _)
FallFrom(g, visited, h, w, col, row) ==
    IF col >= w THEN g
    ELSE IF row < 0 THEN FallFrom(g, visited, h, w, col + 1, FirstFallRow(h))
    ELSE IF g[row][col] # None /\ <<row, col>> \notin visited
         THEN LET dest == FallDest(g, col, row)
                  g1 == IF dest # row
                        THEN [g EXCEPT ![dest][col] = g[row][col],
                                       ![row][col] = None]
                        ELSE g
              IN  FallFrom(g1, visited, h, w, col, row - 1)
         ELSE FallFrom(g, visited, h, w, col, row - 1)

\* fall_disconnected_tiles
fall_disconnected_tiles(g, h, w) ==
    FallFrom(g, Supported(g, h, w), h, w, 0, FirstFallRow(h))

\* update_grid, lines 113-127: the placement loops, columns outside, rows
\* inside, from footprint cell (row, col) on.
\* st = [g, affected_cols, game_over, outside]; outside counts the occupied
\* footprint cells of this call that map outside the board.
RECURSIVE PlaceFrom(_, _, _, _, _, _, _)
PlaceFrom(st, h, w, tiles, blc, col, row) ==
    LET n_rows == NumRows(tiles)
        n_cols == NumCols(tiles)
    IN  IF col >= n_cols THEN st
        ELSE IF row >= n_rows THEN PlaceFrom(st, h, w, tiles, blc, col + 1, 0)
        ELSE LET tile == tiles[row][col]
                 pos == [x |-> blc.x + col, y |-> blc.y + (n_rows - 1 - row)]
             IN  IF tile # None
                 THEN IF is_inside(h, w, pos.y, pos.x)
                      THEN PlaceFrom(
                               [st EXCEPT !.g[pos.y][pos.x] = tile,
                                          !.affected_cols = @ \cup {pos.x}],
                               h, w, tiles, blc, col, row + 1)
                      ELSE PlaceFrom(
                               [st EXCEPT !.game_over = TRUE,
                                          !.outside = @ + 1],
                               h, w, tiles, blc, col, row + 1)
                 ELSE PlaceFrom(st, h, w, tiles, blc, col, row + 1)

\* update_grid, lines 133-139: the merge/settle loop.
\* st = [g, score, phases, merges, passes]; phases lists the passes run so
\* far, merges concatenates the logs of the merge passes and passes lists how
\* many merges each merge pass made.
RECURSIVE MergeLoopSettlesOnceAfter(_, _, _, _)
MergeLoopSettlesOnceAfter(st, h, w, affected_cols) ==
    LET m == chain_bottom_up_merge(st.g, h, st.score, affected_cols)
    IN  IF m.merged
        THEN MergeLoopSettlesOnceAfter(
                 [g |-> m.g, score |-> m.score,
                  phases |-> Append(st.phases, "merge"),
                  merges |-> st.merges \o m.log,
                  passes |-> Append(st.passes, Len(m.log))],
                 h, w, affected_cols)
        ELSE [g |-> fall_disconnected_tiles(m.g, h, w), score |-> m.score,
              phases |-> st.phases \o <<"merge", "settle">>,
              merges |-> st.merges \o m.log,
              passes |-> Append(st.passes, Len(m.log))]
RECURSIVE MergeLoop(_, _, _, _)
MergeLoop(st, h, w, affected_cols) ==
    LET m == chain_bottom_up_merge(st.g, h, st.score, affected_cols)
    IN  IF m.merged
        THEN MergeLoop([g |-> fall_disconnected_tiles(m.g, h, w),
                        score |-> m.score,
                        phases |-> st.phases \o <<"merge", "settle">>,
                        merges |-> st.merges \o m.log,
                        passes |-> Append(st.passes, Len(m.log))],
                       h, w, affected_cols)
        ELSE [g |-> m.g, score |-> m.score,
              phases |-> Append(st.phases, "merge"),
              merges |-> st.merges \o m.log,
              passes |-> Append(st.passes, Len(m.log))]

\* update_grid, lines 107-110: the flag the placement starts from is
\* self.game_over as the earlier calls left it; the call does not reset it.
EntryFlagReset(go) == FALSE
EntryFlag(go) == go

\* update_grid, line 129: the test that ends the call after placement.
OverflowTestNever(go) == FALSE
OverflowTest(go) == go

\* update_grid(tiles_to_lock, blc_position) on a grid [g, score, game_over]:
\* the grid afterwards, the value returned (ret) and what the call did:
\* affected_cols, outside (footprint cells off the board), placed (the grid
\* when the placement loops ended), looped (the grid when the merge/settle
\* loop ended), phases, merges, passes, cleared.
update_grid(g, h, w, sc, go, tiles, blc) ==
    LET placed == PlaceFrom([g |-> g, affected_cols |-> {},
                             game_over |-> EntryFlag(go),
                             outside |-> 0], h, w, tiles, blc, 0, 0)
    IN  IF OverflowTest(placed.game_over)
        THEN [g |-> placed.g, score |-> sc, game_over |-> placed.game_over,
              ret |-> TRUE, outside |-> placed.outside, placed |-> placed.g,
              looped |-> placed.g,
              affected_cols |-> placed.affected_cols,
              phases |-> <<"place">>, merges |-> <<>>, passes |-> <<>>,
              cleared |-> <<>>]
        ELSE LET looped == MergeLoop([g |-> placed.g, score |-> sc,
                                      phases |-> <<"place">>, merges |-> <<>>,
                                      passes |-> <<>>],
                                     h, w, placed.affected_cols)
                 clr == clear_full_rows_return_columns(looped.g, h, w, looped.score)
             IN  [g |-> fall_disconnected_tiles(clr.g, h, w),
                  score |-> clr.score, game_over |-> placed.game_over,
                  ret |-> FALSE, outside |-> placed.outside, placed |-> placed.g,
                  looped |-> looped.g,
                  affected_cols |-> placed.affected_cols,
                  phases |-> looped.phases \o <<"clear", "settle">>,
                  merges |-> looped.merges, passes |-> looped.passes,
                  cleared |-> clr.log]

\* -------------------------------------------------------------- Tetromino
Shapes == {"I", "O", "Z", "S", "T", "J", "L"}

\* Tetromino.__init__, lines 29-49: n for each shape.
ShapeSize(shape) ==
    CASE shape = "I" -> 4
      [] shape = "O" -> 2
      [] OTHER -> 3

\* Tetromino.__init__, lines 29-49: occupied_cells, each pair in the order the
\* source writes it; line 52 unpacks a pair as (col_index, row_index).
OccupiedCells(shape) ==
    CASE shape = "I" -> << <<1, 0>>, <<1, 1>>, <<1, 2>>, <<1, 3>> >>
      [] shape = "O" -> << <<0, 0>>, <<1, 0>>, <<0, 1>>, <<1, 1>> >>
      [] shape = "Z" -> << <<0, 1>>, <<1, 1>>, <<1, 2>>, <<2, 2>> >>
      [] shape = "S" -> << <<1, 1>>, <<2, 1>>, <<0, 2>>, <<1, 2>> >>
      [] shape = "T" -> << <<0, 1>>, <<1, 1>>, <<2, 1>>, <<1, 0>> >>
      [] shape = "J" -> << <<0, 1>>, <<1, 1>>, <<2, 1>>, <<2, 2>> >>
      [] shape = "L" -> << <<0, 2>>, <<0, 1>>, <<1, 1>>, <<2, 1>> >>

\* Tetromino.__init__, lines 51-53: the matrix filled with new tiles, from the
\* i-th pair of occupied_cells on; numbers[i] is the i-th Tile().
RECURSIVE FillCellsRowFirst(_, _, _, _)
FillCellsRowFirst(m, cells, numbers, i) ==
    IF i > Len(cells) THEN m
    ELSE LET row_index == cells[i][1]
             col_index == cells[i][2]
         IN  FillCellsRowFirst([m EXCEPT ![row_index][col_index] = numbers[i]],
                               cells, numbers, i + 1)
RECURSIVE FillCells(_, _, _, _)
FillCells(m, cells, numbers, i) ==
    IF i > Len(cells) THEN m
    ELSE LET col_index == cells[i][1]
             row_index == cells[i][2]
         IN  FillCells([m EXCEPT ![row_index][col_index] = numbers[i]],
                       cells, numbers, i + 1)

\* Tetromino.__init__, line 56: the row of the board the bottom-left cell of
\* a new piece is put on.
SpawnYInside(h) == h - 2
SpawnY(h) == h - 1

\* Tetromino(shape): numbers are the four random tile numbers, x the random
\* start column drawn from 0..grid_width - n.
Tetromino(shape, numbers, x, h) ==
    LET n == ShapeSize(shape)
    IN  [type |-> shape,
         tile_matrix |-> FillCells(EmptyMatrix(n, n), OccupiedCells(shape), numbers, 1),
         bottom_left_cell |-> [x |-> x, y |-> SpawnY(h)]]

\* The arguments create_tetromino can draw on a board of width w.
NumberChoices == [1..4 -> TileNumbers]
StartColumns(shape, w) == 0..(w - ShapeSize(shape))

\* get_cell_position(row, col)
get_cell_position(t, row, col) ==
    LET n == NumRows(t.tile_matrix)
    IN  [x |-> t.bottom_left_cell.x + col,
         y |-> t.bottom_left_cell.y + (n - 1) - row]

\* The occupied (row, col) cells of a matrix.
Occupied(m) ==
    {rc \in (DOMAIN m) \X (DOMAIN m[0]) : m[rc[1]][rc[2]] # None}

\* get_min_bounded_tile_matrix(True): [tiles, blc].
get_min_bounded_tile_matrix_y_kept(t) ==
    LET m == t.tile_matrix
        n == NumRows(m)
        occ == Occupied(m)
        rows == {rc[1] : rc \in occ}
        cols == {rc[2] : rc \in occ}
        min_row == CHOOSE a \in rows \cup {n - 1} : \A b \in rows \cup {n - 1} : a <= b
        max_row == CHOOSE a \in rows \cup {0} : \A b \in rows \cup {0} : a >= b
        min_col == CHOOSE a \in cols \cup {n - 1} : \A b \in cols \cup {n - 1} : a <= b
        max_col == CHOOSE a \in cols \cup {0} : \A b \in cols \cup {0} : a >= b
        height == max_row - min_row + 1
        width == max_col - min_col + 1
    IN  [tiles |-> [r \in 0..(height - 1) |->
                       [c \in 0..(width - 1) |-> deepcopy(m[r + min_row][c + min_col])]],
         blc |-> [x |-> t.bottom_left_cell.x + min_col,
                  y |-> t.bottom_left_cell.y]]
get_min_bounded_tile_matrix(t) ==
    LET m == t.tile_matrix
        n == NumRows(m)
        occ == Occupied(m)
        rows == {rc[1] : rc \in occ}
        cols == {rc[2] : rc \in occ}
        min_row == CHOOSE a \in rows \cup {n - 1} : \A b \in rows \cup {n - 1} : a <= b
        max_row == CHOOSE a \in rows \cup {0} : \A b \in rows \cup {0} : a >= b
        min_col == CHOOSE a \in cols \cup {n - 1} : \A b \in cols \cup {n - 1} : a <= b
        max_col == CHOOSE a \in cols \cup {0} : \A b \in cols \cup {0} : a >= b
        height == max_row - min_row + 1
        width == max_col - min_col + 1
    IN  [tiles |-> [r \in 0..(height - 1) |->
                       [c \in 0..(width - 1) |-> deepcopy(m[r + min_row][c + min_col])]],
         blc |-> [x |-> t.bottom_left_cell.x + min_col,
                  y |-> t.bottom_left_cell.y + ((n - 1) - max_row)]]

\* can_be_moved, lines 135-145: row r blocks a move to the left or right.
\* The scan stops at the first occupied column from that side.
RowBlocksWallOnly(t, direction, g, h, w, r) ==
    LET m == t.tile_matrix
        cols == {c \in DOMAIN m[r] : m[r][c] # None}
    IN  /\ cols # {}
        /\ LET c == IF direction = "left"
                    THEN CHOOSE a \in cols : \A b \in cols : a <= b
                    ELSE CHOOSE a \in cols : \A b \in cols : a >= b
               pos == get_cell_position(t, r, c)
           IN  \/ direction = "left" /\ pos.x = 0
               \/ direction = "right" /\ pos.x = w - 1
RowBlocks(t, direction, g, h, w, r) ==
    LET m == t.tile_matrix
        cols == {c \in DOMAIN m[r] : m[r][c] # None}
    IN  /\ cols # {}
        /\ LET c == IF direction = "left"
                    THEN CHOOSE a \in cols : \A b \in cols : a <= b
                    ELSE CHOOSE a \in cols : \A b \in cols : a >= b
               pos == get_cell_position(t, r, c)
           IN  \/ direction = "left"
                  /\ (pos.x = 0 \/ is_occupied(g, h, w, pos.y, pos.x - 1))
               \/ direction = "right"
                  /\ (pos.x = w - 1 \/ is_occupied(g, h, w, pos.y, pos.x + 1))

\* can_be_moved, lines 147-154: column c blocks a move down.  The scan stops
\* at the bottommost occupied row of the column.
ColumnBlocksOneEarly(t, g, h, w, c) ==
    LET m == t.tile_matrix
        rows == {r \in DOMAIN m : m[r][c] # None}
    IN  /\ rows # {}
        /\ LET r == CHOOSE a \in rows : \A b \in rows : a >= b
               pos == get_cell_position(t, r, c)
           IN  pos.y <= 1 \/ is_occupied(g, h, w, pos.y - 1, pos.x)
ColumnBlocks(t, g, h, w, c) ==
    LET m == t.tile_matrix
        rows == {r \in DOMAIN m : m[r][c] # None}
    IN  /\ rows # {}
        /\ LET r == CHOOSE a \in rows : \A b \in rows : a >= b
               pos == get_cell_position(t, r, c)
           IN  pos.y = 0 \/ is_occupied(g, h, w, pos.y - 1, pos.x)

\* can_be_moved(direction, game_grid)
can_be_moved_sideways_always(t, direction, g, h, w) ==
    IF direction \in {"left", "right"}
    THEN TRUE
    ELSE ~ \E c \in DOMAIN t.tile_matrix[0] : ColumnBlocks(t, g, h, w, c)
can_be_moved(t, direction, g, h, w) ==
    IF direction \in {"left", "right"}
    THEN ~ \E r \in DOMAIN t.tile_matrix : RowBlocks(t, direction, g, h, w, r)
    ELSE ~ \E c \in DOMAIN t.tile_matrix[0] : ColumnBlocks(t, g, h, w, c)

\* move, lines 121-126: the new bottom-left cell.
MovedCellDiagonal(blc, direction) ==
    IF direction = "left" THEN [x |-> blc.x - 1, y |-> blc.y - 1]
    ELSE IF direction = "right" THEN [x |-> blc.x + 1, y |-> blc.y]
    ELSE [x |-> blc.x, y |-> blc.y - 1]
MovedCell(blc, direction) ==
    IF direction = "left" THEN [x |-> blc.x - 1, y |-> blc.y]
    ELSE IF direction = "right" THEN [x |-> blc.x + 1, y |-> blc.y]
    ELSE [x |-> blc.x, y |-> blc.y - 1]

\* move(direction, game_grid): [ret, t], the value returned and the piece
\* afterwards.
move(t, direction, g, h, w) ==
    IF ~ can_be_moved(t, direction, g, h, w)
    THEN [ret |-> FALSE, t |-> t]
    ELSE [ret |-> TRUE,
          t |-> [t EXCEPT !.bottom_left_cell = MovedCell(@, direction)]]

\* np.rot90(m, -1): the matrix turned clockwise by 90 degrees.
rot90Shifted(m) ==
    LET n == NumRows(m)
    IN  [i \in 0..(n - 1) |-> [j \in 0..(n - 1) |->
            IF j = 0 THEN None ELSE m[n - j][i]]]
rot90(m) ==
    LET n == NumRows(m)
    IN  [i \in 0..(n - 1) |-> [j \in 0..(n - 1) |-> m[n - 1 - j][i]]]

\* rotate, lines 166-175: occupied cell (r, c) of the rotated matrix is on
\* the board and on a free cell.
RotatedCellValidInsideOnly(t, rotated, g, h, w, r, c) ==
    LET n == NumRows(rotated)
        new_x == t.bottom_left_cell.x + c
        new_y == t.bottom_left_cell.y + (n - 1) - r
    IN  ~(new_x < 0 \/ new_x >= w \/ new_y < 0 \/ new_y >= h)
RotatedCellValid(t, rotated, g, h, w, r, c) ==
    LET n == NumRows(rotated)
        new_x == t.bottom_left_cell.x + c
        new_y == t.bottom_left_cell.y + (n - 1) - r
    IN  /\ ~(new_x < 0 \/ new_x >= w \/ new_y < 0 \/ new_y >= h)
        /\ ~ is_occupied(g, h, w, new_y, new_x)

\* rotate(game_grid): [ret, t].
rotate_commits_first(t, g, h, w) ==
    LET rotated == rot90(t.tile_matrix)
    IN  [ret |-> \A rc \in Occupied(rotated) :
                    RotatedCellValid(t, rotated, g, h, w, rc[1], rc[2]),
         t |-> [t EXCEPT !.tile_matrix = rotated]]
rotate(t, g, h, w) ==
    LET rotated == rot90(t.tile_matrix)
    IN  IF \E rc \in Occupied(rotated) :
               ~ RotatedCellValid(t, rotated, g, h, w, rc[1], rc[2])
        THEN [ret |-> FALSE, t |-> t]
        ELSE [ret |-> TRUE, t |-> [t EXCEPT !.tile_matrix = rotated]]

\* ----------------------------------------------------------------- driver
NoPiece == [type |-> "none"]

\* What a step that makes no update_grid call records about one.
NoCall == [piece |-> NoPiece, tiles |-> <<>>, blc |-> [x |-> 0, y |-> 0],
           columns |-> {}, outside |-> 0, placed |-> <<>>, looped |-> <<>>,
           phases |-> <<>>, merges |-> <<>>, passes |-> <<>>, cleared |-> <<>>]

Called(op, dir, ret, call) == [op |-> op, dir |-> dir, ret |-> ret, call |-> call]

\* What a step records about its update_grid call: the piece whose footprint
\* fp was locked and the result u.
CallOf(t, fp, u) == [piece |-> t, tiles |-> fp.tiles, blc |-> fp.blc,
                     columns |-> u.affected_cols, outside |-> u.outside,
                     placed |-> u.placed, looped |-> u.looped,
                     phases |-> u.phases, merges |-> u.merges,
                     passes |-> u.passes, cleared |-> u.cleared]

\* Tetromino(shape) for every outcome of its random draws.
NewPiecesOf(shape, h, w) ==
    {Tetromino(shape, numbers, x, h) :
        numbers \in NumberChoices, x \in StartColumns(shape, w)}

\* create_tetromino(): every piece it can return.
NewPieces(h, w) == UNION {NewPiecesOf(shape, h, w) : shape \in Shapes}

\* The shapes and rows of the pieces a caller locks after game over.
LateShapes == {"O"}
LateRows(h) == {0, h - 1}

\* start, lines 714-724: a fresh session, followed through its first piece.
Init ==
    /\ grid_height = GridHeight
    /\ grid_width = GridWidth
    /\ tile_matrix = EmptyMatrix(GridHeight, GridWidth)
    /\ score = 0
    /\ game_over = FALSE
    /\ cleared_lines = 0
    /\ level = 1
    /\ cur \in NewPieces(GridHeight, GridWidth)
    /\ running = TRUE
    /\ pc = "key"
    /\ pieces = 0
    /\ nxt = NoPiece
    /\ hold = NoPiece
    /\ used = FALSE
    /\ holds = 0
    /\ late_calls = 0
    /\ last = Called("init", "", FALSE, NoCall)
    /\ pre = [tile_matrix |-> EmptyMatrix(GridHeight, GridWidth), score |-> 0,
              game_over |-> FALSE, cur |-> cur]
    /\ overflow_calls = 0
    /\ rows_removed = 0

Playing == running /\ cur # NoPiece

\* The grid and the piece a step starts from.
Snapshot == [tile_matrix |-> tile_matrix, score |-> score,
             game_over |-> game_over, cur |-> cur, nxt |-> nxt, hold |-> hold,
             used |-> used, pieces |-> pieces]

GridUnchanged == UNCHANGED <<tile_matrix, grid_height, grid_width, score,
                             game_over, cleared_lines, overflow_calls,
                             rows_removed>>

\* start, line 730: no key was typed in this iteration.
KeyNone ==
    /\ Playing /\ pc = "key"
    /\ pc' = "tick"
    /\ pre' = Snapshot
    /\ last' = Called("none", "", FALSE, NoCall)
    /\ GridUnchanged
    /\ UNCHANGED <<level, cur, running, pieces, hold_vars, late_calls>>

\* start, lines 732-733: cur.move(k, grid) for k in left, right, down.
KeyMove(k) ==
    /\ Playing /\ pc = "key"
    /\ LET r == move(cur, k, tile_matrix, grid_height, grid_width)
       IN  /\ cur' = r.t
           /\ last' = Called("move", k, r.ret, NoCall)
    /\ pc' = "tick"
    /\ pre' = Snapshot
    /\ GridUnchanged
    /\ UNCHANGED <<level, running, pieces, hold_vars, late_calls>>

\* start, lines 734-735: cur.rotate(grid).
KeyRotate ==
    /\ Playing /\ pc = "key"
    /\ LET r == rotate(cur, tile_matrix, grid_height, grid_width)
       IN  /\ cur' = r.t
           /\ last' = Called("rotate", "", r.ret, NoCall)
    /\ pc' = "tick"
    /\ pre' = Snapshot
    /\ GridUnchanged
    /\ UNCHANGED <<level, running, pieces, hold_vars, late_calls>>

\* start, lines 738-739: while cur.move("down", grid): pass
RECURSIVE HardDrop(_, _, _, _)
HardDrop(t, g, h, w) ==
    LET r == move(t, "down", g, h, w)
    IN  IF r.ret THEN HardDrop(r.t, g, h, w) ELSE r.t

\* start, lines 736-739: the space key.
KeyHardDrop ==
    /\ Playing /\ pc = "key"
    /\ cur' = HardDrop(cur, tile_matrix, grid_height, grid_width)
    /\ last' = Called("hard_drop", "down", FALSE, NoCall)
    /\ pc' = "tick"
    /\ pre' = Snapshot
    /\ GridUnchanged
    /\ UNCHANGED <<level, running, pieces, hold_vars, late_calls>>

\* start, line 743: the test that lets the h key act.
HoldAllowedAlways(u) == TRUE
HoldAllowed(u) == ~u

\* start, lines 750-754: piece t put back at the top of the board, its
\* bottom-left cell in column x.
ResetPosition(t, x, h) ==
    [t EXCEPT !.bottom_left_cell = [x |-> x, y |-> h - 1]]

\* start, lines 743-757: the h key.  With used set the key does nothing.
\* Otherwise the held piece, or the next piece when nothing is held, becomes
\* current at the top of the board in a random column and the piece that was
\* current is held.  A session that creates no further piece skips the key
\* while nothing is held and no next piece is left.
KeyHold ==
    /\ Playing /\ pc = "key"
    /\ IF HoldAllowed(used)
       THEN /\ hold = NoPiece => nxt # NoPiece
            /\ LET promoted == IF hold = NoPiece THEN nxt ELSE hold
               IN  \E x \in 0..(grid_width - NumRows(promoted.tile_matrix)) :
                       cur' = ResetPosition(promoted, x, grid_height)
            /\ hold' = cur
            /\ IF hold = NoPiece
               THEN IF pieces > 0
                    THEN /\ nxt' \in NewPieces(grid_height, grid_width)
                         /\ pieces' = pieces - 1
                    ELSE /\ nxt' = NoPiece
                         /\ UNCHANGED pieces
               ELSE UNCHANGED <<nxt, pieces>>
            /\ used' = TRUE
            /\ holds' = holds + 1
            /\ last' = Called("hold", "", TRUE, NoCall)
       ELSE /\ UNCHANGED <<cur, hold, nxt, pieces, used, holds>>
            /\ last' = Called("hold", "", FALSE, NoCall)
    /\ pc' = "tick"
    /\ pre' = Snapshot
    /\ GridUnchanged
    /\ UNCHANGED <<level, running, late_calls>>

\* start, lines 803-805: the level rises once cleared_lines reaches 5 * level.
LevelAfter(lines, lvl) == IF lines >= lvl * 5 THEN lvl + 1 ELSE lvl

\* start, line 786: the automatic drop when the piece can move down.
TickDown ==
    /\ Playing /\ pc = "tick"
    /\ LET r == move(cur, "down", tile_matrix, grid_height, grid_width)
       IN  /\ r.ret
           /\ cur' = r.t
           /\ last' = Called("move", "down", TRUE, NoCall)
    /\ pc' = "key"
    /\ pre' = Snapshot
    /\ level' = LevelAfter(cleared_lines, level)
    /\ GridUnchanged
    /\ UNCHANGED <<running, pieces, hold_vars, late_calls>>

\* clear_full_rows_return_columns as the driver sees it: the cleared-line
\* attribute of the grid after a call that removed the rows of log.
ClearedLinesAfter(lines, log) == lines

\* start, lines 786-800: the piece has landed; its footprint is locked and the
\* next piece becomes current, or the loop ends on game over.
TickLock ==
    /\ Playing /\ pc = "tick"
    /\ ~ move(cur, "down", tile_matrix, grid_height, grid_width).ret
    /\ LET fp == get_min_bounded_tile_matrix(cur)
           u == update_grid(tile_matrix, grid_height, grid_width, score,
                            game_over, fp.tiles, fp.blc)
       IN  /\ tile_matrix' = u.g
           /\ score' = u.score
           /\ game_over' = u.game_over
           /\ cleared_lines' = ClearedLinesAfter(cleared_lines, u.cleared)
           /\ rows_removed' = rows_removed + Len(u.cleared)
           /\ overflow_calls' = overflow_calls + (IF u.outside > 0 THEN 1 ELSE 0)
           /\ last' = Called("lock", "", u.ret, CallOf(cur, fp, u))
           /\ IF u.ret
              THEN /\ running' = FALSE
                   /\ UNCHANGED <<cur, pieces, level, nxt, used>>
              ELSE /\ running' = TRUE
                   /\ level' = LevelAfter(cleared_lines', level)
                   /\ cur' = nxt
                   /\ used' = FALSE
                   /\ IF pieces > 0
                      THEN /\ nxt' \in NewPieces(grid_height, grid_width)
                           /\ pieces' = pieces - 1
                      ELSE /\ nxt' = NoPiece
                           /\ UNCHANGED pieces
    /\ holds' = 0
    /\ UNCHANGED hold
    /\ pc' = "key"
    /\ pre' = Snapshot
    /\ UNCHANGED <<grid_height, grid_width, late_calls>>

\* A caller of the engine that goes on after game over: it creates a
\* tetromino, sets its bottom-left cell and hands its footprint to
\* update_grid on the same grid.
LateLock ==
    /\ game_over /\ late_calls < MaxLateCalls
    /\ \E shape \in LateShapes, y \in LateRows(grid_height) :
       \E t \in NewPiecesOf(shape, grid_height, grid_width) :
         LET late == [t EXCEPT !.bottom_left_cell.y = y]
             fp == get_min_bounded_tile_matrix(late)
             u == update_grid(tile_matrix, grid_height, grid_width, score,
                              game_over, fp.tiles, fp.blc)
         IN  /\ tile_matrix' = u.g
             /\ score' = u.score
             /\ game_over' = u.game_over
             /\ cleared_lines' = ClearedLinesAfter(cleared_lines, u.cleared)
             /\ rows_removed' = rows_removed + Len(u.cleared)
             /\ overflow_calls' = overflow_calls + (IF u.outside > 0 THEN 1 ELSE 0)
             /\ last' = Called("lock", "", u.ret, CallOf(late, fp, u))
    /\ late_calls' = late_calls + 1
    /\ pre' = Snapshot
    /\ UNCHANGED <<grid_height, grid_width, level, cur, running, pc, pieces, hold_vars>>

Next ==
    \/ KeyNone
    \/ \E k \in {"left", "right", "down"} : KeyMove(k)
    \/ KeyRotate
    \/ KeyHardDrop
    \/ TickDown
    \/ TickLock
    \/ LateLock

Spec == Init /\ [][Next]_vars

\* ------------------------------------------------- sessions on a filled grid
\* A session at the moment create_tetromino has returned a new piece, on a
\* grid that holds locked tiles: every column is a stack that stands on the
\* floor, no two neighbouring tiles are equal and no row is full.  The tiles
\* carry identities: 1, 3, 5, 7 are the Tile() objects of the new piece (2, 4,
\* 6, 8 their copies), the locked tiles are copies with identities from 10 on.
StackValue(r, c) == IF (r + c) % 2 = 0 THEN 2 ELSE 4

StackIdent(r, c, w) == 8 + 2 * (r * w + c + 1)

StackGrid(heights, h, w) ==
    [r \in 0..(h - 1) |-> [c \in 0..(w - 1) |->
        IF r < heights[c] THEN Tile(StackIdent(r, c, w), StackValue(r, c))
        ELSE None]]

StackGrids(h, w) ==
    {StackGrid(heights, h, w) : heights \in
        {hs \in [0..(w - 1) -> 0..MaxStack] : \E c \in 0..(w - 1) : hs[c] = 0}}

\* The tiles of the new piece: all 2, or 2 and 4 in turn.
StackNumbers ==
    {[i \in 1..4 |-> Tile(2 * i - 1, 2)],
     [i \in 1..4 |-> Tile(2 * i - 1, IF i % 2 = 1 THEN 2 ELSE 4)]}

StackPieces(h, w) ==
    UNION {{Tetromino(shape, numbers, x, h) :
               numbers \in StackNumbers, x \in StartColumns(shape, w)} :
           shape \in Shapes}

InitStack ==
    /\ grid_height = StackHeight
    /\ grid_width = StackWidth
    /\ tile_matrix \in StackGrids(StackHeight, StackWidth)
    /\ score = 0
    /\ game_over = FALSE
    /\ cleared_lines = 0
    /\ level = 1
    /\ cur \in StackPieces(StackHeight, StackWidth)
    /\ running = TRUE
    /\ pc = "key"
    /\ pieces = 0
    /\ nxt = NoPiece
    /\ hold = NoPiece
    /\ used = FALSE
    /\ holds = 0
    /\ late_calls = 0
    /\ last = Called("init", "", FALSE, NoCall)
    /\ pre = [tile_matrix |-> tile_matrix, score |-> 0, game_over |-> FALSE,
              cur |-> cur]
    /\ overflow_calls = 0
    /\ rows_removed = 0

\* start, lines 728-800: one iteration of the loop.
NextStack ==
    \/ KeyNone
    \/ \E k \in {"left", "right", "down"} : KeyMove(k)
    \/ KeyRotate
    \/ KeyHardDrop
    \/ TickDown
    \/ TickLock

SpecStack == InitStack /\ [][NextStack]_vars

\* ----------------------------------------------------------- single passes
\* One pass of the grid (chain_bottom_up_merge, clear_full_rows_return_columns,
\* fall_disconnected_tiles) applied to any grid of PassHeight x PassWidth cells over PassTiles.
\* A session of two pieces on the empty board: the first piece is an L piece
\* of tiles 2 and 4 in turn or of tiles 4, and the next piece is any piece
\* create_tetromino() can return.
FirstNumbers ==
    {[i \in 1..4 |-> IF i % 2 = 1 THEN 2 ELSE 4], [i \in 1..4 |-> 4]}

FirstPieces(h, w) ==
    {Tetromino("L", numbers, x, h) :
        numbers \in FirstNumbers, x \in StartColumns("L", w)}

InitTwo ==
    /\ grid_height = GridHeight
    /\ grid_width = GridWidth
    /\ tile_matrix = EmptyMatrix(GridHeight, GridWidth)
    /\ score = 0
    /\ game_over = FALSE
    /\ cleared_lines = 0
    /\ level = 1
    /\ cur \in FirstPieces(GridHeight, GridWidth)
    /\ running = TRUE
    /\ pc = "key"
    /\ pieces = MorePieces - 1
    /\ nxt \in NewPieces(GridHeight, GridWidth)
    /\ hold = NoPiece
    /\ used = FALSE
    /\ holds = 0
    /\ late_calls = 0
    /\ last = Called("init", "", FALSE, NoCall)
    /\ pre = [tile_matrix |-> EmptyMatrix(GridHeight, GridWidth), score |-> 0,
              game_over |-> FALSE, cur |-> cur]
    /\ overflow_calls = 0
    /\ rows_removed = 0

SpecTwo == InitTwo /\ [][NextStack]_vars

\* A fresh session in which the player types h or nothing: the first piece
\* is an O piece of tiles 2, the next piece is one of FirstPieces, and
\* create_tetromino() returns HoldDraws further pieces.
HoldFirst(h, w) == {Tetromino("O", [i \in 1..4 |-> 2], 0, h)}

InitHold ==
    /\ grid_height = GridHeight
    /\ grid_width = GridWidth
    /\ tile_matrix = EmptyMatrix(GridHeight, GridWidth)
    /\ score = 0
    /\ game_over = FALSE
    /\ cleared_lines = 0
    /\ level = 1
    /\ cur \in HoldFirst(GridHeight, GridWidth)
    /\ running = TRUE
    /\ pc = "key"
    /\ pieces = HoldDraws
    /\ nxt \in FirstPieces(GridHeight, GridWidth)
    /\ hold = NoPiece
    /\ used = FALSE
    /\ holds = 0
    /\ late_calls = 0
    /\ last = Called("init", "", FALSE, NoCall)
    /\ pre = [tile_matrix |-> EmptyMatrix(GridHeight, GridWidth), score |-> 0,
              game_over |-> FALSE, cur |-> cur]
    /\ overflow_calls = 0
    /\ rows_removed = 0

NextHold ==
    \/ KeyNone
    \/ KeyHold
    \/ TickDown
    \/ TickLock

SpecHold == InitHold /\ [][NextHold]_vars

PassTiles == {None, 2, 4}

PassGrids == [0..(PassHeight - 1) -> [0..(PassWidth - 1) -> PassTiles]]

InitPass ==
    /\ grid_height = PassHeight
    /\ grid_width = PassWidth
    /\ tile_matrix \in PassGrids
    /\ score = 0
    /\ game_over = FALSE
    /\ cleared_lines = 0
    /\ level = 1
    /\ cur = NoPiece
    /\ running = TRUE
    /\ pc = "key"
    /\ pieces = 0
    /\ nxt = NoPiece
    /\ hold = NoPiece
    /\ used = FALSE
    /\ holds = 0
    /\ late_calls = 0
    /\ last = Called("init", "", FALSE, NoCall)
    /\ pre = [tile_matrix |-> tile_matrix, score |-> 0, game_over |-> FALSE,
              cur |-> NoPiece]
    /\ overflow_calls = 0
    /\ rows_removed = 0

\* chain_bottom_up_merge(columns), once, on the initial grid.
MergePass ==
    /\ last.op = "init"
    /\ \E columns \in SUBSET (0..(grid_width - 1)) :
         LET m == chain_bottom_up_merge(tile_matrix, grid_height, score, columns)
         IN  /\ tile_matrix' = m.g
             /\ score' = m.score
             /\ last' = Called("merge", "", m.merged,
                               [NoCall EXCEPT !.columns = columns,
                                              !.phases = <<"merge">>,
                                              !.merges = m.log])
    /\ pre' = Snapshot
    /\ UNCHANGED <<grid_height, grid_width, game_over, cleared_lines, level, cur,
                   running, pc, pieces, hold_vars, late_calls, overflow_calls, rows_removed>>

\* clear_full_rows_return_columns(), once, on the initial grid.
ClearPass ==
    /\ last.op = "init"
    /\ LET c == clear_full_rows_return_columns(tile_matrix, grid_height,
                                               grid_width, score)
       IN  /\ tile_matrix' = c.g
           /\ score' = c.score
           /\ cleared_lines' = ClearedLinesAfter(cleared_lines, c.log)
           /\ rows_removed' = rows_removed + Len(c.log)
           /\ last' = Called("clear", "", c.log # <<>>,
                             [NoCall EXCEPT !.columns = c.cleared_cols,
                                            !.phases = <<"clear">>,
                                            !.cleared = c.log])
    /\ pre' = Snapshot
    /\ UNCHANGED <<grid_height, grid_width, game_over, level, cur, running, pc,
                   pieces, hold_vars, late_calls, overflow_calls>>

\* fall_disconnected_tiles(), once, on the initial grid.
SettlePass ==
    /\ last.op = "init"
    /\ tile_matrix' = fall_disconnected_tiles(tile_matrix, grid_height, grid_width)
    /\ last' = Called("settle", "", FALSE, [NoCall EXCEPT !.phases = <<"settle">>])
    /\ pre' = Snapshot
    /\ UNCHANGED <<grid_height, grid_width, score, game_over, cleared_lines, level,
                   cur, running, pc, pieces, hold_vars, late_calls, overflow_calls,
                   rows_removed>>

\* fall_disconnected_tiles() called again right after the first call.
SettleAgain ==
    /\ last.op = "settle"
    /\ tile_matrix' = fall_disconnected_tiles(tile_matrix, grid_height, grid_width)
    /\ last' = Called("settle_again", "", FALSE,
                      [NoCall EXCEPT !.phases = <<"settle", "settle">>])
    /\ pre' = Snapshot
    /\ UNCHANGED <<grid_height, grid_width, score, game_over, cleared_lines, level,
                   cur, running, pc, pieces, hold_vars, late_calls, overflow_calls,
                   rows_removed>>

NextPass ==
    \/ MergePass
    \/ ClearPass
    \/ SettlePass
    \/ SettleAgain

SpecPass == InitPass /\ [][NextPass]_vars

\* ------------------------------------------------------------ properties
LastLock == last.op = "lock"

\* The board cell a footprint cell (row, col) of the last call maps to
\* (update_grid, lines 117-120).
FootprintCell(call, row, col) ==
    [x |-> call.blc.x + col, y |-> call.blc.y + (NumRows(call.tiles) - 1 - row)]

\* The grid the last call started from with the in-bounds tiles of its
\* footprint put on their cells and nothing else changed.
PlacedOnly(call, g, h, w) ==
    [r \in 0..(h - 1) |-> [c \in 0..(w - 1) |->
        IF \E rc \in Occupied(call.tiles) :
               FootprintCell(call, rc[1], rc[2]) = [x |-> c, y |-> r]
        THEN LET rc == CHOOSE rc \in Occupied(call.tiles) :
                           FootprintCell(call, rc[1], rc[2]) = [x |-> c, y |-> r]
             IN  call.tiles[rc[1]][rc[2]]
        ELSE g[r][c]]]

\* C1: no step of the engine (move, rotate, hard drop, update_grid with its
\* merge, row-clear and settle passes) lowers GameGrid.score.
C1_ScoreNeverDecreases == score >= pre.score

\* A lock whose merges or cleared rows raised the score.
C1_Witness == LastLock /\ score > pre.score /\ last.call.merges # <<>>

\* C2: a move (left, right or down) or a rotate that returns False leaves the
\* piece (bottom-left cell and matrix) and the grid (cells, score, flag) as
\* they were.
C2_RejectedLeavesStateUnchanged ==
    (last.op \in {"move", "rotate"} /\ ~last.ret) =>
        /\ cur = pre.cur
        /\ tile_matrix = pre.tile_matrix
        /\ score = pre.score
        /\ game_over = pre.game_over

\* A rotate rejected for a piece whose turned matrix differs from its matrix.
C2_Witness ==
    /\ last.op = "rotate" /\ ~last.ret
    /\ rot90(pre.cur.tile_matrix) # pre.cur.tile_matrix

\* C3: a move that returns True changes exactly one of x and y of the
\* bottom-left cell, by one: x - 1 for left, x + 1 for right, y - 1 for down;
\* the matrix and the grid are unchanged.
C3_SuccessfulMoveShiftsByOne ==
    (last.op = "move" /\ last.ret) =>
        /\ cur.bottom_left_cell =
             (CASE last.dir = "left" ->
                     [x |-> pre.cur.bottom_left_cell.x - 1,
                      y |-> pre.cur.bottom_left_cell.y]
                [] last.dir = "right" ->
                     [x |-> pre.cur.bottom_left_cell.x + 1,
                      y |-> pre.cur.bottom_left_cell.y]
                [] last.dir = "down" ->
                     [x |-> pre.cur.bottom_left_cell.x,
                      y |-> pre.cur.bottom_left_cell.y - 1])
        /\ cur.tile_matrix = pre.cur.tile_matrix
        /\ cur.type = pre.cur.type
        /\ tile_matrix = pre.tile_matrix
        /\ score = pre.score
        /\ game_over = pre.game_over

\* A successful move to the left.
C3_Witness == last.op = "move" /\ last.ret /\ last.dir = "left"

\* C4: an update_grid call with an occupied footprint cell off the board
\* returns True, runs no merge pass, no row clearing and no settle pass (the
\* grid is the old one with the in-bounds tiles placed) and leaves the score.
C4_OverflowStopsResolution ==
    (LastLock /\ last.call.outside > 0) =>
        /\ last.ret
        /\ last.call.phases = <<"place">>
        /\ last.call.merges = <<>> /\ last.call.cleared = <<>>
        /\ score = pre.score
        /\ tile_matrix = PlacedOnly(last.call, pre.tile_matrix, grid_height, grid_width)

\* An overflowing lock that left two equal tiles stacked in a column.
C4_Witness ==
    /\ LastLock /\ last.call.outside > 0 /\ ~pre.game_over
    /\ \E c \in 0..(grid_width - 1) :
         tile_matrix[0][c] # None /\ tile_matrix[0][c] = tile_matrix[1][c]

\* C5 as claimed: a call returns True only if one of its own footprint cells
\* maps outside the board, and returns False when all are in bounds.
C5_Original == LastLock => (last.ret <=> last.call.outside > 0)

\* C5 amended: a call returns True exactly when one of its own footprint
\* cells maps outside the board or the game_over flag of the grid was set
\* before the call; the flag is set exactly when some call so far had a
\* footprint cell outside the board.
C5_GameOverOnlyByOverflow ==
    /\ LastLock => (last.ret <=> (last.call.outside > 0 \/ pre.game_over))
    /\ game_over <=> overflow_calls > 0

\* A call whose footprint is all in bounds and that returns True.
C5_Witness == LastLock /\ last.ret /\ last.call.outside = 0

\* Sum of the numbers the merges of a log produced.
RECURSIVE MergedSum(_)
MergedSum(log) == IF log = <<>> THEN 0 ELSE Head(log).result + MergedSum(Tail(log))

\* Sum of the tile numbers of the rows a log lists as removed.
RECURSIVE ClearedSum(_)
ClearedSum(log) ==
    IF log = <<>> THEN 0 ELSE RowSum(Head(log).tiles) + ClearedSum(Tail(log))

\* Sum of the tile numbers of the full rows of grid g from row r up.
RECURSIVE FullRowsSum(_, _, _, _)
FullRowsSum(g, h, w, r) ==
    IF r >= h THEN 0
    ELSE (IF FullRow(g, w, r) THEN RowSum(g[r]) ELSE 0) + FullRowsSum(g, h, w, r + 1)

\* C6: a call that does not overflow raises the score by the doubled numbers
\* its merges produced plus the tile numbers of the rows it cleared; when it
\* merged nothing this is the sum V of the tiles of the full rows of the grid
\* with the footprint placed.
C6_ScoreDelta ==
    (LastLock /\ ~last.ret) =>
        /\ score - pre.score =
             MergedSum(last.call.merges) + ClearedSum(last.call.cleared)
        /\ \A i \in 1..Len(last.call.merges) :
             last.call.merges[i].result = 2 * last.call.merges[i].current
        /\ last.call.merges = <<>> =>
             score - pre.score =
               FullRowsSum(PlacedOnly(last.call, pre.tile_matrix, grid_height,
                                      grid_width),
                           grid_height, grid_width, 0)

\* A lock that cleared one full row and scored its tiles.
C6_Witness ==
    /\ LastLock /\ ~last.ret
    /\ Len(last.call.cleared) = 1
    /\ score - pre.score = RowSum(last.call.cleared[1].tiles)
    /\ score > pre.score

\* The lowest row of column c of grid g that holds the same number as the row
\* above it, or h when there is none.
LowestEqualPair(g, h, c) ==
    LET rows == {r \in 0..(h - 2) : g[r][c] # None /\ g[r][c] = g[r + 1][c]}
    IN  IF rows = {} THEN h ELSE CHOOSE r \in rows : \A q \in rows : r <= q

LastMerge == last.op = "merge"

\* C7: in a merge pass merge_with is only called on two equal numbers; each
\* merge doubles the tile at row, empties row + 1 and adds the doubled number
\* to the score; the lowest equal pair of every affected column is merged.
C7_MergePairs ==
    LastMerge =>
        /\ \A i \in 1..Len(last.call.merges) :
             LET e == last.call.merges[i]
             IN  /\ e.current = e.above
                 /\ e.current = pre.tile_matrix[e.row][e.col]
                 /\ e.col \in last.call.columns
                 /\ tile_matrix[e.row][e.col] = 2 * e.current
                 /\ tile_matrix[e.row + 1][e.col] = None
        /\ score - pre.score = MergedSum(last.call.merges)
        /\ \A c \in last.call.columns :
             LET r == LowestEqualPair(pre.tile_matrix, grid_height, c)
             IN  r < grid_height =>
                   /\ tile_matrix[r][c] = 2 * pre.tile_matrix[r][c]
                   /\ tile_matrix[r + 1][c] = None
                   /\ \E i \in 1..Len(last.call.merges) :
                        last.call.merges[i].row = r /\ last.call.merges[i].col = c

\* The column that holds 2 at row 0 and 2 at row 1 ends with 4 at row 0 and
\* row 1 empty, the score 4 higher.
C7_Witness ==
    /\ LastMerge /\ last.call.columns = {0}
    /\ pre.tile_matrix[0][0] = 2 /\ pre.tile_matrix[1][0] = 2
    /\ pre.tile_matrix[2][0] = None /\ pre.tile_matrix[3][0] = None
    /\ tile_matrix[0][0] = 4 /\ tile_matrix[1][0] = None
    /\ score = pre.score + 4

\* Column c of grid g holds two equal numbers in rows r and r + 1.
EqualPairAt(g, r, c) == g[r][c] # None /\ g[r][c] = g[r + 1][c]

RECURSIVE KeptRows(_, _, _, _)
KeptRows(g, h, w, r) ==
    IF r >= h THEN <<>>
    ELSE (IF FullRow(g, w, r) THEN <<>> ELSE <<g[r]>>) \o KeptRows(g, h, w, r + 1)

\* The indices of the full rows of grid g from row r up, bottom first.
RECURSIVE FullRowIndices(_, _, _, _)
FullRowIndices(g, h, w, r) ==
    IF r >= h THEN <<>>
    ELSE (IF FullRow(g, w, r) THEN <<r>> ELSE <<>>) \o FullRowIndices(g, h, w, r + 1)

LastClear == last.op = "clear"

\* C9: the row-clearing phase removes every full row: the rows that were not
\* full keep their contents and order and lie at the bottom, the rows above
\* them are empty, no row is full; the i-th row removed is the i-th full row
\* of the grid, found at its index lowered by the i - 1 removals before it
\* (the same index is tested again after a removal).
C9_ClearRemovesFullRows ==
    LastClear =>
        LET h == grid_height
            w == grid_width
            kept == KeptRows(pre.tile_matrix, h, w, 0)
            full == FullRowIndices(pre.tile_matrix, h, w, 0)
        IN  /\ \A r \in 0..(h - 1) :
                 tile_matrix[r] = IF r < Len(kept) THEN kept[r + 1]
                                  ELSE [c \in 0..(w - 1) |-> None]
            /\ \A r \in 0..(h - 1) : ~ FullRow(tile_matrix, w, r)
            /\ Len(last.call.cleared) = Len(full)
            /\ \A i \in 1..Len(full) :
                 /\ last.call.cleared[i].row = full[i] - (i - 1)
                 /\ last.call.cleared[i].tiles = pre.tile_matrix[full[i]]

\* Two full rows with a row that is not full between them were removed.
C9_Witness ==
    /\ LastClear /\ Len(last.call.cleared) = 2
    /\ FullRow(pre.tile_matrix, grid_width, 0)
    /\ ~ FullRow(pre.tile_matrix, grid_width, 1)
    /\ FullRow(pre.tile_matrix, grid_width, 2)
    /\ pre.tile_matrix[1] # [c \in 0..(grid_width - 1) |-> None]

\* The occupied cells of grid g next to a cell of S, with S.
GroundedStep(S, g, h, w) ==
    S \cup {rc \in (0..(h - 1)) \X (0..(w - 1)) :
              /\ g[rc[1]][rc[2]] # None
              /\ \E q \in S : \/ (q[1] = rc[1] /\ (q[2] = rc[2] + 1 \/ q[2] = rc[2] - 1))
                              \/ (q[2] = rc[2] /\ (q[1] = rc[1] + 1 \/ q[1] = rc[1] - 1))}

RECURSIVE GroundedFrom(_, _, _, _)
GroundedFrom(S, g, h, w) ==
    LET T == GroundedStep(S, g, h, w)
    IN  IF T = S THEN S ELSE GroundedFrom(T, g, h, w)

\* The cells of grid g that are occupied and in row 0 or joined to an
\* occupied cell of row 0 by a 4-directional path of occupied cells.
Grounded(g, h, w) ==
    GroundedFrom({rc \in {0} \X (0..(w - 1)) : g[0][rc[2]] # None}, g, h, w)

OccupiedCellsOf(g, h, w) ==
    {rc \in (0..(h - 1)) \X (0..(w - 1)) : g[rc[1]][rc[2]] # None}

LastSettle == last.op = "settle"

\* C11: after one settle pass every occupied cell is in row 0 or joined to an
\* occupied cell of row 0 by a 4-directional path of occupied cells.
C11_SettledGridIsGrounded ==
    LastSettle =>
        OccupiedCellsOf(tile_matrix, grid_height, grid_width)
            \subseteq Grounded(tile_matrix, grid_height, grid_width)

\* C12: after one settle pass every tile that was not grounded when the pass
\* began (the tiles of the cells outside the grounded cells, which the pass
\* leaves in place) lies in row 0 or directly above an occupied cell.
C12_FloatingTilesRest ==
    LastSettle =>
        \A rc \in OccupiedCellsOf(tile_matrix, grid_height, grid_width)
                  \ Grounded(pre.tile_matrix, grid_height, grid_width) :
            rc[1] = 0 \/ tile_matrix[rc[1] - 1][rc[2]] # None

\* C13: a second settle pass right after the first leaves the grid as the
\* first left it.
C13_SettleIdempotent ==
    last.op = "settle_again" => tile_matrix = pre.tile_matrix

\* C14: the settle pass leaves every grounded tile on its cell, also when the
\* cell below it is empty.
C14_GroundedTilesStay ==
    LastSettle =>
        \A rc \in Grounded(pre.tile_matrix, grid_height, grid_width) :
            tile_matrix[rc[1]][rc[2]] = pre.tile_matrix[rc[1]][rc[2]]

\* A pass that left in place a grounded tile that hangs over an empty cell,
\* held by the tile beside it.
C14_Witness ==
    /\ LastSettle
    /\ \E rc \in Grounded(pre.tile_matrix, grid_height, grid_width) :
         /\ rc[1] > 0 /\ rc[1] < grid_height - 1
         /\ pre.tile_matrix[rc[1] - 1][rc[2]] = None
         /\ tile_matrix[rc[1]][rc[2]] = pre.tile_matrix[rc[1]][rc[2]]
         /\ tile_matrix[rc[1] - 1][rc[2]] = None

\* C10: the cleared-line counter of the grid equals the number of rows the
\* row-clearing phase has removed in the session.
C10_ClearedLinesCountsRows == cleared_lines = rows_removed

\* The piece the driver holds was just created (first state of the session).
Fresh == last.op = "init" /\ cur # NoPiece

\* The board cells the occupied cells of piece t map to (get_cell_position).
BoardCells(t) ==
    {get_cell_position(t, rc[1], rc[2]) : rc \in Occupied(t.tile_matrix)}

\* C15: the active tetromino always has exactly 4 occupied cells in a square
\* matrix of the size n of its type: at creation and after every move and
\* every rotate, accepted or rejected.
C15_FourCells ==
    cur # NoPiece =>
        /\ Cardinality(Occupied(cur.tile_matrix)) = 4
        /\ NumRows(cur.tile_matrix) = ShapeSize(cur.type)
        /\ \A r \in DOMAIN cur.tile_matrix :
             DOMAIN cur.tile_matrix[r] = 0..(ShapeSize(cur.type) - 1)
        /\ last.op \in {"move", "rotate", "hard_drop"} =>
             NumRows(cur.tile_matrix) = NumRows(pre.cur.tile_matrix)

\* An accepted rotate that changed the arrangement of the cells.
C15_Witness ==
    /\ last.op = "rotate" /\ last.ret
    /\ Occupied(cur.tile_matrix) # Occupied(pre.cur.tile_matrix)

\* The pairs listed for a shape (the same numbers in the source and the spec).
ListedPairs(shape) ==
    {OccupiedCells(shape)[i] : i \in 1..Len(OccupiedCells(shape))}

\* C17 as claimed: each listed pair is (row, col) with row 0 the bottom row of
\* the local matrix, so pair p lies on board cell (blc.x + p[2], blc.y + p[1]).
C17_Original ==
    Fresh =>
        BoardCells(cur) =
            {[x |-> cur.bottom_left_cell.x + p[2],
              y |-> cur.bottom_left_cell.y + p[1]] : p \in ListedPairs(cur.type)}

\* C17 amended: each listed pair is (col, row) with row 0 the top row of the
\* local matrix, so pair p lies on board cell (blc.x + p[1],
\* blc.y + (n - 1) - p[2]); type I occupies four cells of local column 1, four
\* vertically adjacent board cells.
C17_ListedPairsAreColRow ==
    Fresh =>
        LET n == ShapeSize(cur.type)
            blc == cur.bottom_left_cell
        IN  /\ Occupied(cur.tile_matrix) =
                 {<<p[2], p[1]>> : p \in ListedPairs(cur.type)}
            /\ BoardCells(cur) =
                 {[x |-> blc.x + p[1], y |-> blc.y + (n - 1) - p[2]] :
                      p \in ListedPairs(cur.type)}
            /\ cur.type = "I" =>
                 BoardCells(cur) = {[x |-> blc.x + 1, y |-> blc.y + k] : k \in 0..3}

\* A new I piece: four board cells of one column.
C17_Witness ==
    /\ Fresh /\ cur.type = "I"
    /\ Cardinality({p.x : p \in BoardCells(cur)}) = 1
    /\ Cardinality({p.y : p \in BoardCells(cur)}) = 4

\* C18 as claimed: the highest occupied cell of a new piece is on the top row
\* of the board (y = height - 1) and no occupied cell is above the board.
C18_Original ==
    Fresh =>
        /\ \E p \in BoardCells(cur) : p.y = grid_height - 1
        /\ \A p \in BoardCells(cur) : p.y <= grid_height - 1

\* C18 amended: the bottom row of the n x n matrix of a new piece is on the
\* top row of the board (bottom-left y = height - 1): no occupied cell is
\* below board row height - 1, only the occupied cells of the bottom matrix
\* row are on the board, and at least one occupied cell is above the board.
C18_SpawnBottomRowOnTopRow ==
    Fresh =>
        LET n == ShapeSize(cur.type)
        IN  /\ cur.bottom_left_cell.y = grid_height - 1
            /\ cur.bottom_left_cell.x \in 0..(grid_width - n)
            /\ \A rc \in Occupied(cur.tile_matrix) :
                 LET p == get_cell_position(cur, rc[1], rc[2])
                 IN  /\ p.y >= grid_height - 1
                     /\ (p.y = grid_height - 1) <=> (rc[1] = n - 1)
            /\ \E p \in BoardCells(cur) : p.y > grid_height - 1

\* A new T piece: all four cells are above the board.
C18_Witness ==
    /\ Fresh /\ cur.type = "T"
    /\ \A p \in BoardCells(cur) : p.y >= grid_height

\* C19: the footprint of a locked piece is the tight bounding box of its
\* occupied cells, and update_grid's coordinate formula maps the tiles of the
\* footprint to the board cells, with the values, that get_cell_position
\* gives for the tiles of the piece; the placement loops put each of them
\* that is on the board on that cell and change no other cell.
C19_FootprintLocksPieceCells ==
    LastLock =>
        LET call == last.call
            t == call.piece
            tiles == call.tiles
            fr == NumRows(tiles)
            fc == NumCols(tiles)
            locked == {<<FootprintCell(call, rc[1], rc[2]), tiles[rc[1]][rc[2]]>> :
                          rc \in Occupied(tiles)}
            held == {<<get_cell_position(t, rc[1], rc[2]),
                       t.tile_matrix[rc[1]][rc[2]]>> :
                          rc \in Occupied(t.tile_matrix)}
        IN  /\ locked = held
            /\ \E c \in 0..(fc - 1) : tiles[0][c] # None
            /\ \E c \in 0..(fc - 1) : tiles[fr - 1][c] # None
            /\ \E r \in 0..(fr - 1) : tiles[r][0] # None
            /\ \E r \in 0..(fr - 1) : tiles[r][fc - 1] # None
            /\ \A r \in 0..(grid_height - 1) : \A c \in 0..(grid_width - 1) :
                 call.placed[r][c] =
                     IF \E e \in held : e[1] = [x |-> c, y |-> r]
                     THEN (CHOOSE e \in held : e[1] = [x |-> c, y |-> r])[2]
                     ELSE pre.tile_matrix[r][c]

\* The lock of a piece whose matrix has an empty bottom row, so the y of the
\* footprint is adjusted, and whose bounding box has an empty cell.
C19_Witness ==
    /\ LastLock /\ last.call.piece = pre.cur
    /\ last.call.blc.y > last.call.piece.bottom_left_cell.y
    /\ \E r \in DOMAIN last.call.tiles : \E c \in DOMAIN last.call.tiles[r] :
         last.call.tiles[r][c] = None

\* The board cells the occupied cells of piece t lie on after a clockwise
\* quarter turn about the matrix: cell (r, c) goes to row c, column n - 1 - r.
TurnedCells(t) ==
    LET n == NumRows(t.tile_matrix)
    IN  {[x |-> t.bottom_left_cell.x + (n - 1 - rc[1]),
          y |-> t.bottom_left_cell.y + (n - 1) - rc[2]] :
             rc \in Occupied(t.tile_matrix)}

\* C16: rotate returns True, and the matrix becomes its clockwise quarter
\* turn, exactly when every occupied cell of the turned matrix, placed at the
\* unchanged bottom-left cell, is on the board and on a free grid cell;
\* otherwise it returns False and the matrix stays; the bottom-left cell is
\* the same afterwards in both cases.
C16_RotateExactlyWhenFree ==
    last.op = "rotate" =>
        LET t == pre.cur
            n == NumRows(t.tile_matrix)
            free == \A p \in TurnedCells(t) :
                       /\ 0 <= p.x /\ p.x < grid_width
                       /\ 0 <= p.y /\ p.y < grid_height
                       /\ pre.tile_matrix[p.y][p.x] = None
        IN  /\ last.ret <=> free
            /\ cur.bottom_left_cell = t.bottom_left_cell
            /\ last.ret =>
                 \A r \in 0..(n - 1) : \A c \in 0..(n - 1) :
                     cur.tile_matrix[c][n - 1 - r] = t.tile_matrix[r][c]
            /\ ~last.ret => cur.tile_matrix = t.tile_matrix

\* A rotate refused only because a turned cell lies on a locked tile: every
\* turned cell is on the board.
C16_Witness ==
    /\ last.op = "rotate" /\ ~last.ret
    /\ \A p \in TurnedCells(pre.cur) :
         /\ 0 <= p.x /\ p.x < grid_width
         /\ 0 <= p.y /\ p.y < grid_height
    /\ \E p \in TurnedCells(pre.cur) : pre.tile_matrix[p.y][p.x] # None

\* The tiles held by the cells of a matrix.
TilesOf(m) == {m[rc[1]][rc[2]] : rc \in Occupied(m)}

\* C20: every occupied grid cell holds one Tile object, a copy made by
\* deepcopy; no Tile object is held by two grid cells; no Tile object held by
\* the grid is held by the matrix of the active tetromino.
C20_GridTilesAreOwnCopies ==
    LET cells == Occupied(tile_matrix)
    IN  /\ \A rc \in cells :
             LET tile == tile_matrix[rc[1]][rc[2]]
             IN  /\ Ident(tile) > 0 /\ Ident(tile) % 2 = 0
                 /\ Number(tile) > 0
        /\ \A rc \in cells : \A qc \in cells :
             Ident(tile_matrix[rc[1]][rc[2]]) = Ident(tile_matrix[qc[1]][qc[2]])
                 => rc = qc
        /\ cur # NoPiece =>
             {Ident(t) : t \in TilesOf(cur.tile_matrix)}
                 \cap {Ident(t) : t \in TilesOf(tile_matrix)} = {}

\* After a lock the driver still holds the piece and the grid holds a copy of
\* one of its tiles, above a tile that was locked before.
C20_Witness ==
    /\ LastLock /\ cur # NoPiece
    /\ \E t \in TilesOf(cur.tile_matrix) : deepcopy(t) \in TilesOf(tile_matrix)
    /\ \E t \in TilesOf(tile_matrix) : Ident(t) > 8

\* The last call locked an O piece with its bottom-left tile on cell (0, 0) of
\* an empty board.
LockedOFlush ==
    /\ LastLock /\ last.call.piece # NoPiece
    /\ last.call.piece.type = "O"
    /\ last.call.blc = [x |-> 0, y |-> 0]
    /\ pre.tile_matrix = EmptyMatrix(grid_height, grid_width)

\* C21 as claimed: the lock of an O piece flush at the bottom left of an empty
\* board 4 wide merges nothing and clears nothing: the four tiles are on their
\* cells with their numbers and the score is unchanged.
C21_Original ==
    (LockedOFlush /\ grid_width = 4) =>
        /\ last.call.merges = <<>> /\ last.call.cleared = <<>>
        /\ \A r \in 0..1 : \A c \in 0..1 :
             tile_matrix[r][c] = last.call.tiles[1 - r][c]
        /\ score = pre.score

\* C21 amended: the lock clears no row and changes no cell outside the two
\* columns of the piece; a column whose two tiles differ keeps both with
\* their numbers, a column whose two tiles hold the same number v ends with
\* one tile 2v in row 0 and row 1 empty; the score rises by the sum of the
\* doubled numbers (it is unchanged exactly when both columns hold unequal
\* tiles).
C21_OLockMergesEqualColumns ==
    (LockedOFlush /\ grid_width = 4) =>
        LET low(c) == Number(last.call.tiles[1][c])
            high(c) == Number(last.call.tiles[0][c])
            gain(c) == IF low(c) = high(c) THEN 2 * low(c) ELSE 0
        IN  /\ last.call.cleared = <<>>
            /\ ~last.ret
            /\ \A c \in 0..1 :
                 IF low(c) = high(c)
                 THEN Number(tile_matrix[0][c]) = 2 * low(c) /\ tile_matrix[1][c] = None
                 ELSE Number(tile_matrix[0][c]) = low(c)
                      /\ Number(tile_matrix[1][c]) = high(c)
            /\ \A r \in 0..(grid_height - 1) : \A c \in 0..(grid_width - 1) :
                 (r > 1 \/ c > 1) => tile_matrix[r][c] = None
            /\ score - pre.score = gain(0) + gain(1)
            /\ Len(last.call.merges) =
                 Cardinality({c \in 0..1 : low(c) = high(c)})

\* An O piece of four 2s locked flush at the bottom left: two merges.
C21_Witness ==
    /\ LockedOFlush /\ grid_width = 4
    /\ \A r \in 0..1 : \A c \in 0..1 : last.call.tiles[r][c] = 2
    /\ Len(last.call.merges) = 2 /\ score = pre.score + 8

\* n is a power of two that is at least 2.
RECURSIVE PowerOfTwo(_)
PowerOfTwo(n) == n = 2 \/ (n > 2 /\ n % 2 = 0 /\ PowerOfTwo(n \div 2))

\* C22: the number of every tile of the grid and of the active tetromino is a
\* power of two that is at least 2; the tiles of a new piece hold 2 or 4.
C22_PowerOfTwo ==
    /\ \A t \in TilesOf(tile_matrix) : PowerOfTwo(Number(t))
    /\ cur # NoPiece =>
         \A t \in TilesOf(cur.tile_matrix) : Number(t) \in {2, 4}

\* A merge has made a tile of number 8 out of two tiles of number 4.
C22_Witness ==
    /\ LastLock
    /\ \E i \in 1..Len(last.call.merges) :
         last.call.merges[i].current = 4 /\ last.call.merges[i].result = 8
    /\ \E t \in TilesOf(tile_matrix) : Number(t) = 8

\* A run of exactly three equal tiles of number v in rows r, r+1, r+2 of
\* column c of grid g: the cells below and above the run, where the board has
\* them, do not hold v.
RunOfThree(g, h, c, r, v) ==
    /\ r + 2 < h
    /\ v # None
    /\ \A k \in 0..2 : Number(g[r + k][c]) = v /\ g[r + k][c] # None
    /\ r > 0 => (g[r - 1][c] = None \/ Number(g[r - 1][c]) # v)
    /\ r + 3 < h => (g[r + 3][c] = None \/ Number(g[r + 3][c]) # v)

\* C25: one merge pass over an affected column holding three stacked equal
\* tiles v, v, v at rows r, r+1, r+2 merges once in those rows, the bottom
\* pair: afterwards row r holds 2v, row r+1 is empty and row r+2 holds v.
C25_ThreeEqualMergeBottomPair ==
    LastMerge =>
        \A c \in last.call.columns : \A r \in 0..(grid_height - 1) :
            \A v \in PassTiles :
                RunOfThree(pre.tile_matrix, grid_height, c, r, v) =>
                    /\ Number(tile_matrix[r][c]) = 2 * v
                    /\ tile_matrix[r + 1][c] = None
                    /\ Number(tile_matrix[r + 2][c]) = v
                    /\ Cardinality({i \in DOMAIN last.call.merges :
                                      /\ last.call.merges[i].col = c
                                      /\ last.call.merges[i].row \in r..(r + 2)}) = 1
                    /\ \E i \in DOMAIN last.call.merges :
                           /\ last.call.merges[i].col = c
                           /\ last.call.merges[i].row = r
                           /\ last.call.merges[i].result = 2 * v

C25_Witness ==
    /\ LastMerge
    /\ \E c \in last.call.columns :
           /\ RunOfThree(pre.tile_matrix, grid_height, c, 0, 2)
           /\ tile_matrix[0][c] = 4
           /\ tile_matrix[2][c] = 2
           /\ pre.tile_matrix[3][c] = 4

\* C27: a merge pass leaves every column outside the affected columns as it
\* was, also a column holding vertically adjacent equal tiles.
C27_MergeOnlyAffectedColumns ==
    LastMerge =>
        \A c \in (0..(grid_width - 1)) \ last.call.columns :
            /\ \A r \in 0..(grid_height - 1) :
                   tile_matrix[r][c] = pre.tile_matrix[r][c]
            /\ \A i \in DOMAIN last.call.merges : last.call.merges[i].col # c

C27_Witness ==
    /\ LastMerge
    /\ last.ret
    /\ \E c \in (0..(grid_width - 1)) \ last.call.columns :
           /\ pre.tile_matrix[0][c] = 2
           /\ pre.tile_matrix[1][c] = 2
           /\ tile_matrix[0][c] = 2
           /\ tile_matrix[1][c] = 2

\* The occupied cells of column c of grid g from row up, bottom to top:
\* each as [row, tile].
RECURSIVE ColumnTiles(_, _, _, _)
ColumnTiles(g, h, c, row) ==
    IF row >= h THEN <<>>
    ELSE (IF g[row][c] # None THEN <<[row |-> row, tile |-> g[row][c]]>>
          ELSE <<>>) \o ColumnTiles(g, h, c, row + 1)

\* C28: a settle pass keeps, in every column, the bottom-to-top sequence of
\* tiles, moves no tile upward, and leaves the score as it was.
C28_SettleKeepsColumnOrder ==
    LastSettle =>
        /\ score = pre.score
        /\ \A c \in 0..(grid_width - 1) :
               LET old == ColumnTiles(pre.tile_matrix, grid_height, c, 0)
                   new == ColumnTiles(tile_matrix, grid_height, c, 0)
               IN  /\ Len(new) = Len(old)
                   /\ \A i \in DOMAIN old :
                          /\ new[i].tile = old[i].tile
                          /\ new[i].row <= old[i].row

C28_Witness ==
    /\ LastSettle
    /\ \E c \in 0..(grid_width - 1) :
           LET old == ColumnTiles(pre.tile_matrix, grid_height, c, 0)
               new == ColumnTiles(tile_matrix, grid_height, c, 0)
           IN  /\ Len(old) = 2
               /\ old[1].tile # old[2].tile
               /\ new[2].row < old[2].row
               /\ new[1].row = 0

\* The phases of the merge/settle loop whose merge passes made the numbers of
\* merges listed in passes from index i on: "merge", then "settle" when the
\* pass merged.
RECURSIVE LoopPhases(_, _)
LoopPhases(passes, i) ==
    IF i > Len(passes) THEN <<>>
    ELSE (IF passes[i] > 0 THEN <<"merge", "settle">> ELSE <<"merge">>)
         \o LoopPhases(passes, i + 1)

RECURSIVE SumFrom(_, _)
SumFrom(passes, i) ==
    IF i > Len(passes) THEN 0 ELSE passes[i] + SumFrom(passes, i + 1)

\* C26: a non-overflowing update_grid call runs the placement; then merge
\* passes, each one that merged followed by one settle pass, until a merge
\* pass merges nothing; then one row clearing; then one settle pass, which is
\* the last phase of the call.
C26_PhaseOrder ==
    (LastLock /\ ~last.ret) =>
        LET passes == last.call.passes
            phases == last.call.phases
            n == Len(passes)
        IN  /\ n >= 1
            /\ passes[n] = 0
            /\ \A i \in 1..(n - 1) : passes[i] > 0
            /\ SumFrom(passes, 1) = Len(last.call.merges)
            /\ phases = <<"place">> \o LoopPhases(passes, 1) \o <<"clear", "settle">>
            /\ Cardinality({i \in DOMAIN phases : phases[i] = "place"}) = 1
            /\ Cardinality({i \in DOMAIN phases : phases[i] = "clear"}) = 1
            /\ Cardinality({i \in DOMAIN phases : phases[i] = "merge"}) = n
            /\ Cardinality({i \in DOMAIN phases : phases[i] = "settle"}) = n
            /\ \A i \in DOMAIN phases :
                   phases[i] = "merge" =>
                       \E j \in (i + 1)..Len(phases) : phases[j] = "clear"

C26_Witness ==
    /\ LastLock
    /\ ~last.ret
    /\ last.call.passes = <<1, 1, 0>>
    /\ last.call.phases =
           <<"place", "merge", "settle", "merge", "settle", "merge", "clear", "settle">>

\* Board cell (y, x) holds a locked tile; a cell off the board holds none.
GridHas(y, x) ==
    /\ 0 <= y /\ y < grid_height
    /\ 0 <= x /\ x < grid_width
    /\ tile_matrix[y][x] # None

\* The lowest board cell of matrix column c of piece t, for a column with
\* an occupied cell.
LowestCell(t, c) ==
    LET cells == {get_cell_position(t, rc[1], rc[2]) :
                     rc \in {q \in Occupied(t.tile_matrix) : q[2] = c}}
    IN  CHOOSE p \in cells : \A q \in cells : p.y <= q.y

\* C23: a hard drop ends after finitely many moves down, with the piece in
\* the same columns and orientation, and then the lowest occupied cell of at
\* least one column of the piece is in board row 0 or directly above an
\* occupied grid cell.
C23_HardDropEndsResting ==
    last.op = "hard_drop" =>
        /\ cur.tile_matrix = pre.cur.tile_matrix
        /\ cur.bottom_left_cell.x = pre.cur.bottom_left_cell.x
        /\ pre.cur.bottom_left_cell.y - cur.bottom_left_cell.y
               \in 0..(grid_height + NumRows(cur.tile_matrix))
        /\ ~last.ret
        /\ \E c \in {rc[2] : rc \in Occupied(cur.tile_matrix)} :
               LET p == LowestCell(cur, c)
               IN  p.y = 0 \/ GridHas(p.y - 1, p.x)

C23_Witness ==
    /\ last.op = "hard_drop"
    /\ pre.cur.bottom_left_cell.y - cur.bottom_left_cell.y >= 2
    /\ \A c \in {rc[2] : rc \in Occupied(cur.tile_matrix)} :
           LowestCell(cur, c).y > 0
    /\ \E c \in {rc[2] : rc \in Occupied(cur.tile_matrix)} :
           ~GridHas(LowestCell(cur, c).y - 1, LowestCell(cur, c).x)

\* Piece t overlaps no locked tile.
NoOverlap(t) == \A p \in BoardCells(t) : ~GridHas(p.y, p.x)

\* Every occupied cell of piece t, shifted one step in direction, stays
\* within the side walls and above the floor and lands on a cell not
\* occupied in the grid.
ShiftFree(t, direction) ==
    \A p \in BoardCells(t) :
        LET q == MovedCell(p, direction)
        IN  /\ 0 <= q.x /\ q.x < grid_width
            /\ 0 <= q.y
            /\ ~GridHas(q.y, q.x)

\* C24: for an active piece overlapping no locked tile, can_be_moved, which
\* tests one extreme cell per row or column, answers True exactly when every
\* occupied cell of the piece can take the step.
C24_ExtremeCellsSuffice ==
    (Playing /\ NoOverlap(cur)) =>
        \A direction \in {"left", "right", "down"} :
            can_be_moved(cur, direction, tile_matrix, grid_height, grid_width)
                <=> ShiftFree(cur, direction)

C24_Witness ==
    /\ Playing
    /\ NoOverlap(cur)
    /\ last.op = "move" /\ last.dir = "left" /\ ~last.ret
    /\ ~can_be_moved(cur, "left", tile_matrix, grid_height, grid_width)
    /\ \A p \in BoardCells(cur) : p.x > 0
    /\ \E p \in BoardCells(cur) :
           GridHas(p.y, p.x - 1) /\ \E q \in BoardCells(cur) : q.y = p.y /\ q.x > p.x

\* C29: every occupied cell of the active tetromino is between the side
\* walls and not below the floor; a new piece has its whole n-wide matrix
\* between the side walls.
C29_PieceWithinWalls ==
    Playing =>
        /\ \A p \in BoardCells(cur) : 0 <= p.x /\ p.x < grid_width /\ 0 <= p.y
        /\ Fresh => cur.bottom_left_cell.x
                        \in 0..(grid_width - NumRows(cur.tile_matrix))

C29_Witness ==
    /\ Playing
    /\ last.op = "move" /\ last.dir = "left" /\ ~last.ret
    /\ cur.bottom_left_cell.x < 0
    /\ \E p \in BoardCells(cur) : p.x = 0

\* The board cells the last update_grid call wrote a footprint tile to.
PlacedCells(call) ==
    {p \in {FootprintCell(call, rc[1], rc[2]) : rc \in Occupied(call.tiles)} :
        is_inside(grid_height, grid_width, p.y, p.x)}

\* C30: no occupied cell of the active tetromino is on an occupied grid
\* cell, and update_grid writes no footprint tile to a cell that held a
\* locked tile.
C30_PieceNeverOverlapsGrid ==
    /\ Playing => NoOverlap(cur)
    /\ LastLock => \A p \in PlacedCells(last.call) :
                       pre.tile_matrix[p.y][p.x] = None

\* The piece after a lock is created on top of a locked tile of the top row.
C30_SpawnedOnLockedTile ==
    /\ LastLock
    /\ Playing
    /\ \E p \in BoardCells(cur) :
           p.y = grid_height - 1 /\ GridHas(p.y, p.x)

\* A locked tile is overwritten by a footprint tile.
C30_LockOverwrites ==
    /\ LastLock
    /\ \E p \in PlacedCells(last.call) : pre.tile_matrix[p.y][p.x] # None

\* The sum of the numbers of the tiles of matrix m, rows from r on.
RECURSIVE MatrixSumFrom(_, _)
MatrixSumFrom(m, r) ==
    IF r >= NumRows(m) THEN 0 ELSE RowSum(m[r]) + MatrixSumFrom(m, r + 1)

MatrixSum(m) == MatrixSumFrom(m, 0)

\* The sum of the numbers of the rows removed by a call, log entries from i on.
RECURSIVE ClearedSumFrom(_, _)
ClearedSumFrom(log, i) ==
    IF i > Len(log) THEN 0 ELSE RowSum(log[i].tiles) + ClearedSumFrom(log, i + 1)

\* C31: after a non-overflowing update_grid call the sum of the tile values
\* on the board is the sum before the call plus the sum of the footprint's
\* tile values minus the sum of the tile values of the rows the call cleared.
C31_ValueConserved ==
    (LastLock /\ ~last.ret) =>
        MatrixSum(tile_matrix) =
            MatrixSum(pre.tile_matrix) + MatrixSum(last.call.tiles)
                - ClearedSumFrom(last.call.cleared, 1)

\* The number of occupied cells of matrix m.
TileCount(m) == Cardinality(Occupied(m))

\* C32: an update_grid call ends.  Every merge removes one tile, so the
\* merge/settle loop makes at most as many merging passes as there are
\* merges, which are fewer than the tiles on the board after the placement,
\* and then one pass that merges nothing; the row clearing removes at most
\* grid_height rows, each of grid_width tiles; an overflowing call runs
\* neither.
C32_UpdateGridEnds ==
    LastLock =>
        LET call == last.call
            n == Len(call.passes)
        IN  IF last.ret
            THEN call.passes = <<>> /\ call.merges = <<>> /\ call.cleared = <<>>
            ELSE /\ n >= 1
                 /\ call.passes[n] = 0
                 /\ \A i \in 1..(n - 1) : call.passes[i] >= 1
                 /\ SumFrom(call.passes, 1) = Len(call.merges)
                 /\ TileCount(call.looped)
                        = TileCount(call.placed) - Len(call.merges)
                 /\ n <= TileCount(call.placed)
                 /\ Len(call.cleared) <= grid_height
                 /\ TileCount(tile_matrix)
                        = TileCount(call.looped) - Len(call.cleared) * grid_width

C32_Witness ==
    /\ LastLock /\ ~last.ret
    /\ Len(last.call.passes) >= 3
    /\ TileCount(last.call.looped) < TileCount(last.call.placed)
    /\ TileCount(pre.tile_matrix) > 0

\* Column c of grid g holds two vertically adjacent tiles of equal number.
EqualPairIn(g, h, c) ==
    \E r \in 0..(h - 2) :
        /\ g[r][c] # None
        /\ g[r + 1][c] # None
        /\ Number(g[r][c]) = Number(g[r + 1][c])

\* C34: when the merge/settle loop of update_grid ends, before the row
\* clearing, no affected column holds two vertically adjacent tiles of equal
\* number.
C34_NoEqualPairAfterLoop ==
    (LastLock /\ ~last.ret) =>
        \A c \in last.call.columns :
            ~EqualPairIn(last.call.looped, grid_height, c)

C34_Witness ==
    /\ LastLock /\ ~last.ret
    /\ Len(last.call.passes) >= 2
    /\ \E c \in last.call.columns :
           /\ EqualPairIn(last.call.placed, grid_height, c)
           /\ last.call.looped[0][c] # None
           /\ last.call.looped[1][c] # None

\* C35: game_over, once set by an update_grid call, stays set, and every
\* later update_grid call on the grid places its footprint, returns True and
\* runs no merge pass, no row clearing and no settle pass.
C35_GameOverSticky ==
    /\ pre.game_over => game_over
    /\ (LastLock /\ pre.game_over) =>
           /\ last.ret
           /\ last.call.phases = <<"place">>
           /\ last.call.merges = <<>>
           /\ last.call.cleared = <<>>
           /\ tile_matrix = last.call.placed
           /\ score = pre.score

C35_Witness ==
    /\ LastLock
    /\ pre.game_over
    /\ last.call.outside = 0
    /\ last.ret
    /\ \E c \in last.call.columns : EqualPairIn(tile_matrix, grid_height, c)

\* C33: when update_grid returns False no row of the grid is completely
\* occupied.
C33_NoFullRowAfterLock ==
    (LastLock /\ ~last.ret) =>
        \A r \in 0..(grid_height - 1) : ~FullRow(tile_matrix, grid_width, r)

\* Piece a is piece b put back at the top of the board: the same type and
\* tiles, bottom-left cell in row grid_height - 1 and in a column that keeps
\* the matrix between the side walls.
IsReset(a, b) ==
    /\ a # NoPiece /\ b # NoPiece
    /\ a.type = b.type
    /\ a.tile_matrix = b.tile_matrix
    /\ a.bottom_left_cell.y = grid_height - 1
    /\ a.bottom_left_cell.x \in 0..(grid_width - NumRows(a.tile_matrix))

\* C36: at most one hold takes effect between two locks.  An h key typed
\* after a hold changes nothing until the current piece locks without game
\* over, which makes the hold available again.  A hold with nothing held
\* holds the current piece, makes the next piece current and draws a new
\* next piece; a hold with a piece held swaps the current and the held piece.
C36_HoldOncePerPiece ==
    /\ holds <= 1
    /\ running => (used <=> holds = 1)
    /\ (LastLock /\ ~last.ret) => ~used
    /\ last.op = "hold" =>
           IF pre.used
           THEN /\ ~last.ret
                /\ used
                /\ cur = pre.cur /\ hold = pre.hold /\ nxt = pre.nxt
           ELSE /\ last.ret
                /\ used
                /\ hold = pre.cur
                /\ IF pre.hold = NoPiece
                   THEN /\ IsReset(cur, pre.nxt)
                        /\ pre.pieces > 0 =>
                               /\ nxt \in NewPieces(grid_height, grid_width)
                               /\ pieces = pre.pieces - 1
                   ELSE /\ IsReset(cur, pre.hold)
                        /\ nxt = pre.nxt
                        /\ pieces = pre.pieces

\* A second h key in the life of one piece was ignored.
C36_KeyIgnored ==
    /\ last.op = "hold"
    /\ pre.used
    /\ ~last.ret
    /\ hold # NoPiece

\* A hold swapped the current and the held piece after a lock made the hold
\* available again.
C36_Witness ==
    /\ last.op = "hold"
    /\ last.ret
    /\ pre.hold # NoPiece
    /\ hold = pre.cur
    /\ cur.type = pre.hold.type
    /\ tile_matrix # EmptyMatrix(grid_height, grid_width)

====
